---- MODULE Spec2Model ----
(***************************************************************************)
(* Model of actix-http/src/body/boxed.rs: BoxBody, the type-erased message *)
(* body.  A BoxBody owns one pinned heap allocation holding a              *)
(* MessageBodyMapErr adapter around the body it was built from, and        *)
(* delegates size / poll_next / is_complete_body / take_complete_body to   *)
(* it, mapping the adapter's boxed error into Error::new_body().           *)
(***************************************************************************)
EXTENDS Integers, Sequences, FiniteSets, TLC

\* ------------------------------------------------------------- bounds
MaxScript == 2      \* longest outcome script of a streaming body
MaxDepth == 2       \* most BoxBody layers built around one body
MaxOps == 4         \* most poll_next / take_complete_body calls recorded
MaxCollapses == 1   \* most boxed() calls made on a value that is a BoxBody

\* ------------------------------------------------------------- values
ChunkData == {<<1>>, <<2, 3>>}
Payloads == {<<>>, <<1>>, <<1, 2, 3>>}
Failures == {"e1", "e2"}

Pending == [kind |-> "pending", data |-> <<>>, err |-> <<>>]
End == [kind |-> "end", data |-> <<>>, err |-> <<>>]
Chunk(d) == [kind |-> "chunk", data |-> d, err |-> <<>>]
Failed(e) == [kind |-> "error", data |-> <<>>, err |-> e]
Taken(d) == [kind |-> "taken", data |-> d, err |-> <<>>]
NoOut == [kind |-> "none", data |-> <<>>, err |-> <<>>]

Outcomes == {Pending, End} \cup {Chunk(d) : d \in ChunkData}
              \cup {Failed(<<e>>) : e \in Failures}

Scripts == UNION {[1..n -> Outcomes] : n \in 0..MaxScript}

\* BodySize: None, Sized(n), Stream
SizeNone == [cat |-> "None", n |-> 0]
Sized(k) == [cat |-> "Sized", n |-> k]
SizeStream == [cat |-> "Stream", n |-> 0]
DeclaredSizes == {SizeNone, Sized(2), SizeStream}

\* A fully buffered body (Bytes): complete, never fails.
BytesBody(d) ==
    [tag |-> "Bytes", data |-> d, script |-> <<>>, pos |-> 0,
     size |-> Sized(0), polled |-> 0]

\* A streaming body: yields the outcomes of its script, one per poll, and
\* end once the script is used up.
StreamBody(s, sz) ==
    [tag |-> "Stream", data |-> <<>>, script |-> s, pos |-> 0,
     size |-> sz, polled |-> 0]

Producers == {BytesBody(d) : d \in Payloads}
               \cup {StreamBody(s, sz) : s \in Scripts, sz \in DeclaredSizes}

IsBoxBody(b) == b.tag = "BoxBody"
IsRaw(b) == b.tag \in {"Bytes", "Stream"}

\* ------------------------------------------------------------- errors
\* An error value is the chain of its layers, outermost first.
IntoBoxed(e) == <<"Box">> \o e
Error_new_body == <<"Body">>
Error_with_cause(err, cause) == err \o cause
Error_kind(err) == Head(err)
Error_cause(err) == Tail(err)
Downcast(boxed) == Tail(boxed)
IsBoxedCause(c) == Len(c) > 0 /\ Head(c) = "Box"

RECURSIVE Hops(_)
Hops(err) ==
    IF err = <<>> THEN 0
    ELSE (IF Head(err) = "Body" THEN 1 ELSE 0) + Hops(Tail(err))

\* ------------------------------------------------------------- bodies
RECURSIVE MessageBody_size(_)
RECURSIVE MessageBody_poll_next(_)
RECURSIVE MessageBody_is_complete_body(_)
RECURSIVE MessageBody_take_complete_body(_)

Producer_size(p) ==
    IF p.tag = "Bytes" THEN Sized(Len(p.data)) ELSE p.size

Producer_poll_next(p) ==
    IF p.tag = "Bytes"
    THEN IF p.data = <<>>
         THEN [self |-> [p EXCEPT !.polled = @ + 1], out |-> End]
         ELSE [self |-> [p EXCEPT !.data = <<>>, !.polled = @ + 1],
               out |-> Chunk(p.data)]
    ELSE IF p.pos < Len(p.script)
         THEN [self |-> [p EXCEPT !.pos = @ + 1, !.polled = @ + 1],
               out |-> p.script[p.pos + 1]]
         ELSE [self |-> [p EXCEPT !.polled = @ + 1], out |-> End]

Producer_is_complete_body(p) == p.tag = "Bytes"

Producer_take_complete_body(p) ==
    [self |-> [p EXCEPT !.data = <<>>], out |-> Taken(p.data)]

MessageBodyMapErr_new(body) == [tag |-> "MapErr", body |-> body]

MessageBodyMapErr_size(m) == MessageBody_size(m.body)

MessageBodyMapErr_poll_next(m) ==
    LET r == MessageBody_poll_next(m.body)
    IN  [self |-> [m EXCEPT !.body = r.self],
         out |-> IF r.out.kind = "error"
                 THEN Failed(IntoBoxed(r.out.err))
                 ELSE r.out]

MessageBodyMapErr_is_complete_body(m) == MessageBody_is_complete_body(m.body)

MessageBodyMapErr_take_complete_body(m) ==
    LET r == MessageBody_take_complete_body(m.body)
    IN  [self |-> [m EXCEPT !.body = r.self], out |-> r.out]

BoxBody_new(body) == [tag |-> "BoxBody", inner |-> MessageBodyMapErr_new(body)]

\* size() that reports every erased body as a stream of unknown length
BoxBody_size_unsized(b) == SizeStream

BoxBody_size(b) == MessageBody_size(b.inner)

\* poll_next that discards a chunk and returns the poll after it
BoxBody_poll_next_drop(b) ==
    LET r == MessageBody_poll_next(b.inner)
        q == MessageBody_poll_next(r.self)
        t == IF r.out.kind = "chunk" THEN q ELSE r
    IN  [self |-> [b EXCEPT !.inner = t.self],
         out |-> IF t.out.kind = "error"
                 THEN Failed(Error_with_cause(Error_new_body, t.out.err))
                 ELSE t.out]

\* poll_next that polls again at once when the inner body is not ready
BoxBody_poll_next_retry(b) ==
    LET r == MessageBody_poll_next(b.inner)
        q == MessageBody_poll_next(r.self)
        t == IF r.out.kind = "pending" THEN q ELSE r
    IN  [self |-> [b EXCEPT !.inner = t.self],
         out |-> IF t.out.kind = "error"
                 THEN Failed(Error_with_cause(Error_new_body, t.out.err))
                 ELSE t.out]

\* poll_next that reports a body that is not ready as finished
BoxBody_poll_next_pending_as_end(b) ==
    LET r == MessageBody_poll_next(b.inner)
    IN  [self |-> [b EXCEPT !.inner = r.self],
         out |-> CASE r.out.kind = "error" ->
                        Failed(Error_with_cause(Error_new_body, r.out.err))
                   [] r.out.kind = "pending" -> End
                   [] OTHER -> r.out]

\* poll_next that builds the body error without attaching the cause
BoxBody_poll_next_nocause(b) ==
    LET r == MessageBody_poll_next(b.inner)
    IN  [self |-> [b EXCEPT !.inner = r.self],
         out |-> IF r.out.kind = "error"
                 THEN Failed(Error_new_body)
                 ELSE r.out]

BoxBody_poll_next(b) ==
    LET r == MessageBody_poll_next(b.inner)
    IN  [self |-> [b EXCEPT !.inner = r.self],
         out |-> IF r.out.kind = "error"
                 THEN Failed(Error_with_cause(Error_new_body, r.out.err))
                 ELSE r.out]

BoxBody_is_complete_body(b) == MessageBody_is_complete_body(b.inner)

\* take_complete_body that hands out the payload and leaves it in place
BoxBody_take_complete_body_keep(b) ==
    [self |-> b, out |-> MessageBody_take_complete_body(b.inner).out]

BoxBody_take_complete_body(b) ==
    LET r == MessageBody_take_complete_body(b.inner)
    IN  [self |-> [b EXCEPT !.inner = r.self], out |-> r.out]

\* boxed() left at the provided method, which builds a new BoxBody
BoxBody_boxed_rebox(b) == BoxBody_new(b)

BoxBody_boxed(b) == b

\* Dynamic dispatch on the body's type.
MessageBody_size(b) ==
    CASE b.tag = "BoxBody" -> BoxBody_size(b)
      [] b.tag = "MapErr" -> MessageBodyMapErr_size(b)
      [] OTHER -> Producer_size(b)

MessageBody_poll_next(b) ==
    CASE b.tag = "BoxBody" -> BoxBody_poll_next(b)
      [] b.tag = "MapErr" -> MessageBodyMapErr_poll_next(b)
      [] OTHER -> Producer_poll_next(b)

MessageBody_is_complete_body(b) ==
    CASE b.tag = "BoxBody" -> BoxBody_is_complete_body(b)
      [] b.tag = "MapErr" -> MessageBodyMapErr_is_complete_body(b)
      [] OTHER -> Producer_is_complete_body(b)

MessageBody_take_complete_body(b) ==
    CASE b.tag = "BoxBody" -> BoxBody_take_complete_body(b)
      [] b.tag = "MapErr" -> MessageBodyMapErr_take_complete_body(b)
      [] OTHER -> Producer_take_complete_body(b)

\* MessageBody::boxed: BoxBody overrides it, every other body uses the
\* provided method, which builds a new BoxBody.
MessageBody_boxed(b) ==
    IF IsBoxBody(b) THEN BoxBody_boxed(b) ELSE BoxBody_new(b)

\* ------------------------------------------------------------- structure
RECURSIVE Depth(_)
Depth(b) ==
    CASE b.tag = "BoxBody" -> 1 + Depth(b.inner)
      [] b.tag = "MapErr" -> Depth(b.body)
      [] OTHER -> 0

RECURSIVE Adapters(_)
Adapters(b) ==
    CASE b.tag = "BoxBody" -> Adapters(b.inner)
      [] b.tag = "MapErr" -> 1 + Adapters(b.body)
      [] OTHER -> 0

RECURSIVE Innermost(_)
Innermost(b) ==
    CASE b.tag = "BoxBody" -> Innermost(b.inner)
      [] b.tag = "MapErr" -> Innermost(b.body)
      [] OTHER -> b

\* ------------------------------------------------------------- state
VARIABLES
    body,        \* the value the caller holds: a raw body or a BoxBody
    input,       \* the raw body the caller started from
    direct,      \* a copy of input driven directly, call for call
    once,        \* BoxBody::new(input), driven call for call
    got,         \* outcomes of the poll_next / take_complete_body calls on body
    gotDirect,   \* the same calls' outcomes on direct
    gotOnce,     \* the same calls' outcomes on once
    prev,        \* body before the last operation
    last,        \* the last operation and what it returned
    nestedNews,  \* number of BoxBody::new calls made on a BoxBody
    collapses    \* number of boxed() calls made on a BoxBody

vars == <<body, input, direct, once, got, gotDirect, gotOnce, prev, last,
          nestedNews, collapses>>

Op(name, out, inner, size, flag) ==
    [op |-> name, out |-> out, inner |-> inner, size |-> size, flag |-> flag]

Init ==
    /\ input \in Producers
    /\ body = input
    /\ direct = input
    /\ once = BoxBody_new(input)
    /\ got = <<>>
    /\ gotDirect = <<>>
    /\ gotOnce = <<>>
    /\ prev = input
    /\ last = Op("init", NoOut, NoOut, SizeNone, FALSE)
    /\ nestedNews = 0
    /\ collapses = 0

\* BoxBody::new(body)
New ==
    /\ Depth(body) < MaxDepth
    /\ body' = BoxBody_new(body)
    /\ prev' = body
    /\ nestedNews' = IF IsBoxBody(body) THEN nestedNews + 1 ELSE nestedNews
    /\ last' = Op("new", NoOut, NoOut, SizeNone, FALSE)
    /\ UNCHANGED <<input, direct, once, got, gotDirect, gotOnce, collapses>>

\* body.boxed()
Boxed ==
    /\ IsBoxBody(body) => collapses < MaxCollapses
    /\ collapses' = IF IsBoxBody(body) THEN collapses + 1 ELSE collapses
    /\ body' = MessageBody_boxed(body)
    /\ prev' = body
    /\ last' = Op("boxed", NoOut, NoOut, SizeNone, FALSE)
    /\ UNCHANGED <<input, direct, once, got, gotDirect, gotOnce, nestedNews>>

\* body.size() on a BoxBody
Size ==
    /\ IsBoxBody(body)
    /\ prev' = body
    /\ last' = Op("size", NoOut, NoOut, BoxBody_size(body), FALSE)
    /\ UNCHANGED <<body, input, direct, once, got, gotDirect, gotOnce,
                   nestedNews, collapses>>

\* body.is_complete_body() on a BoxBody
IsComplete ==
    /\ IsBoxBody(body)
    /\ prev' = body
    /\ last' = Op("is_complete_body", NoOut, NoOut, SizeNone,
                  BoxBody_is_complete_body(body))
    /\ UNCHANGED <<body, input, direct, once, got, gotDirect, gotOnce,
                   nestedNews, collapses>>

\* body.poll_next(cx) on a BoxBody
PollNext ==
    /\ IsBoxBody(body)
    /\ Len(got) < MaxOps
    /\ LET r == BoxBody_poll_next(body)
           d == Producer_poll_next(direct)
           o == BoxBody_poll_next(once)
           i == MessageBody_poll_next(body.inner.body)
       IN  /\ body' = r.self
           /\ direct' = d.self
           /\ once' = o.self
           /\ got' = Append(got, r.out)
           /\ gotDirect' = Append(gotDirect, d.out)
           /\ gotOnce' = Append(gotOnce, o.out)
           /\ last' = Op("poll_next", r.out, i.out, SizeNone, FALSE)
    /\ prev' = body
    /\ UNCHANGED <<input, nestedNews, collapses>>

\* body.take_complete_body() on a BoxBody that reports a complete body
TakeComplete ==
    /\ IsBoxBody(body)
    /\ BoxBody_is_complete_body(body)
    /\ Len(got) < MaxOps
    /\ LET r == BoxBody_take_complete_body(body)
           d == Producer_take_complete_body(direct)
           o == BoxBody_take_complete_body(once)
           i == MessageBody_take_complete_body(body.inner.body)
       IN  /\ body' = r.self
           /\ direct' = d.self
           /\ once' = o.self
           /\ got' = Append(got, r.out)
           /\ gotDirect' = Append(gotDirect, d.out)
           /\ gotOnce' = Append(gotOnce, o.out)
           /\ last' = Op("take_complete_body", r.out, i.out, SizeNone, FALSE)
    /\ prev' = body
    /\ UNCHANGED <<input, nestedNews, collapses>>

Next ==
    \/ New
    \/ Boxed
    \/ Size
    \/ IsComplete
    \/ PollNext
    \/ TakeComplete

Spec == Init /\ [][Next]_vars

TypeOK ==
    /\ input \in Producers
    /\ IsRaw(direct)
    /\ Depth(body) <= MaxDepth
    /\ Len(got) <= MaxOps

\* ------------------------------------------------------------- properties
Idx == 1..Len(got)
LastPolled == last.op = "poll_next"

\* An inner body that yields no chunk after it has yielded end or error.
FusedInner ==
    \A i, j \in 1..Len(input.script) :
        (i < j /\ input.script[i].kind \in {"end", "error"})
            => input.script[j].kind # "chunk"

\* An inner body that yields only end after it has yielded end.
StaysEnded ==
    \A i, j \in 1..Len(input.script) :
        (i < j /\ input.script[i].kind = "end") => input.script[j].kind = "end"

\* C1: boxed() on a value that is already a BoxBody returns that same
\* BoxBody: same inner body, no further adapter, no further allocation, so
\* boxed(boxed(x)) = boxed(x).
CollapseRule ==
    /\ (last.op = "boxed" /\ IsBoxBody(prev))
          => /\ body = prev
             /\ Depth(body) = Depth(prev)
             /\ Adapters(body) = Adapters(prev)
    /\ MessageBody_boxed(MessageBody_boxed(body)) = MessageBody_boxed(body)

CollapseRuleWitness ==
    /\ last.op = "boxed"
    /\ IsBoxBody(prev)
    /\ collapses = 1
    /\ Len(got) > 0

\* C2 as stated: no BoxBody ever holds a BoxBody, whatever erasure
\* operations (BoxBody::new, boxed()) built it.
NoNestedLayers == Depth(body) <= 1

\* C2 amended: boxed() never adds a layer; every BoxBody::new made on a
\* BoxBody adds exactly one, each with its own adapter.
NestingOnlyFromNew ==
    IsBoxBody(body)
        => /\ Depth(body) = 1 + nestedNews
           /\ Adapters(body) = Depth(body)

NestingOnlyFromNewWitness ==
    /\ IsBoxBody(body)
    /\ collapses >= 1
    /\ nestedNews = 1
    /\ Depth(body) = 2
    /\ last.op = "boxed"

\* C3: pulling from the BoxBody yields exactly the chunks the inner body
\* yields when driven directly: same order, same boundaries, same end.
DrainEquivalence ==
    /\ Len(got) = Len(gotDirect)
    /\ \A i \in Idx :
          /\ got[i].data = gotDirect[i].data
          /\ (got[i].kind = "chunk") <=> (gotDirect[i].kind = "chunk")
          /\ (got[i].kind = "end") <=> (gotDirect[i].kind = "end")

DrainEquivalenceWitness ==
    /\ Len(got) = 3
    /\ got[1] = Chunk(<<2, 3>>)
    /\ got[2] = Chunk(<<1>>)
    /\ got[3] = End
    /\ Len(input.script) = 2

\* C4: a BoxBody built from a BoxBody of X yields the same outcomes, with
\* the same bytes, as a BoxBody built from X.
DoubleErasureDrain ==
    Depth(body) >= 2
        => /\ Len(got) = Len(gotOnce)
           /\ \A i \in Idx :
                 /\ got[i].data = gotOnce[i].data
                 /\ got[i].kind = gotOnce[i].kind

DoubleErasureDrainWitness ==
    /\ input = BytesBody(<<1, 2, 3>>)
    /\ Depth(body) = 2
    /\ nestedNews = 1
    /\ got = <<Chunk(<<1, 2, 3>>), End>>

\* C5: when the pull on the inner body fails with E, the pull on the
\* BoxBody returns a body error whose cause is E; no error of the BoxBody
\* has another kind or lacks a cause.
ErrorCausePreserved ==
    /\ (LastPolled /\ last.inner.kind = "error")
          => /\ last.out.kind = "error"
             /\ Error_kind(last.out.err) = "Body"
             /\ IsBoxedCause(Error_cause(last.out.err))
             /\ Downcast(Error_cause(last.out.err)) = last.inner.err
    /\ \A i \in Idx :
          got[i].kind = "error"
              => /\ Error_kind(got[i].err) = "Body"
                 /\ IsBoxedCause(Error_cause(got[i].err))
                 /\ gotDirect[i].kind = "error"

ErrorCausePreservedWitness ==
    /\ LastPolled
    /\ last.inner = Failed(<<"e2">>)
    /\ last.out.kind = "error"

\* C6 as stated: whatever the inner body, once a pull on the BoxBody has
\* returned end or error, no later pull returns a chunk.
FusedTermination ==
    \A i, j \in Idx :
        (i < j /\ got[i].kind \in {"end", "error"}) => got[j].kind # "chunk"

\* C6 amended: the BoxBody is as fused as its inner body.  Over an inner
\* body that yields no chunk after end or error, no pull after end or
\* error returns a chunk; over one that stays ended, a pull after end
\* returns end.
FusedWhenInnerFused ==
    \A i, j \in Idx :
        (i < j /\ got[j].kind # "taken")
            => /\ (FusedInner /\ got[i].kind \in {"end", "error"})
                     => got[j].kind # "chunk"
               /\ (StaysEnded /\ got[i].kind = "end") => got[j].kind = "end"

FusedWhenInnerFusedWitness ==
    /\ FusedInner
    /\ StaysEnded
    /\ Len(got) = 4
    /\ got[1].kind = "chunk"
    /\ got[2].kind = "error"
    /\ got[3].kind = "end"
    /\ got[4].kind = "end"

\* C7: a take_complete_body on a complete BoxBody returns the whole
\* payload in that call, and nothing returned afterwards, by a take or a
\* pull, carries payload bytes again.
FastPathOnce ==
    \A i \in Idx :
        got[i].kind = "taken"
            => /\ (\A k \in 1..(i - 1) : got[k].data = <<>>)
                     => got[i].data = input.data
               /\ \A j \in Idx : j > i => got[j].data = <<>>

FastPathOnceWitness ==
    /\ Len(got) >= 3
    /\ got[1] = Taken(<<1, 2, 3>>)
    /\ got[2] = Taken(<<>>)
    /\ got[3].kind = "end"
    /\ Depth(body) = 2

\* C8: size() and is_complete_body() of a BoxBody equal those of its inner
\* body, and calling them changes no state.
QueryPassthrough ==
    /\ IsBoxBody(body)
          => /\ BoxBody_size(body) = MessageBody_size(body.inner.body)
             /\ BoxBody_size(body) = Producer_size(direct)
             /\ BoxBody_is_complete_body(body)
                   = MessageBody_is_complete_body(body.inner.body)
             /\ BoxBody_is_complete_body(body)
                   = Producer_is_complete_body(direct)
    /\ last.op \in {"size", "is_complete_body"}
          => /\ body = prev
             /\ Innermost(body) = direct
    /\ last.op = "size" => last.size = Producer_size(direct)
    /\ last.op = "is_complete_body"
          => last.flag = Producer_is_complete_body(direct)

QueryPassthroughWitness ==
    /\ last.op = "size"
    /\ last.size = Sized(2)
    /\ input.tag = "Stream"
    /\ Depth(body) = 2
    /\ Len(got) > 0

\* C9 as stated: the error of a twice-erased body carries no more body
\* error layers than that of the once-erased body: at most one.
SingleAdapterHop ==
    (LastPolled /\ last.out.kind = "error")
        => /\ Hops(last.out.err) <= 1
           /\ last.out.err = gotOnce[Len(gotOnce)].err

\* C9 amended: erasing again with boxed() adds no error layer, the error
\* is that of the once-erased body, one hop from E; every BoxBody::new
\* made on a BoxBody adds one body error layer.
HopsFollowNesting ==
    (LastPolled /\ last.out.kind = "error")
        => /\ Hops(last.out.err) = 1 + nestedNews
           /\ nestedNews = 0 => last.out.err = gotOnce[Len(gotOnce)].err
           /\ gotDirect[Len(gotDirect)].kind = "error"
           /\ SubSeq(last.out.err, Len(last.out.err), Len(last.out.err))
                 = gotDirect[Len(gotDirect)].err

HopsFollowNestingWitness ==
    /\ LastPolled
    /\ last.out.kind = "error"
    /\ collapses = 1
    /\ nestedNews = 0
    /\ Hops(last.out.err) = 1

\* C10: each pull on the BoxBody pulls the inner body exactly once and
\* returns an outcome of the same kind.
OutcomeKindPreserved ==
    /\ LastPolled
          => /\ last.out.kind = last.inner.kind
             /\ Innermost(body).polled = Innermost(prev).polled + 1
    /\ \A i \in Idx : got[i].kind = gotDirect[i].kind
    /\ Innermost(body) = direct

OutcomeKindPreservedWitness ==
    /\ LastPolled
    /\ last.out.kind = "pending"
    /\ Len(got) = 2
    /\ got[1].kind = "pending"
====
